---- MODULE Spec2Model ----
(***************************************************************************)
(* Verification model of the Custom IC source plugin                      *)
(* (CustomICThread.cpp / CustomICThread.h): the streaming packet framer   *)
(* CustomIC::ProtocolParser and its sample decoder.                       *)
(*                                                                         *)
(* Bytes are naturals 0..255.  A float is a record [m, e] standing for    *)
(* m * 2^e, kept canonical (m odd, or m = 0 and e = 0), with at most 24   *)
(* significant bits in m: the binary32 values the code computes with.     *)
(***************************************************************************)
EXTENDS Integers, Sequences, FiniteSets, TLC

(***************************************************************************)
(* Bit-level helpers (uint8_t / int32_t arithmetic of the C++ code).      *)
(***************************************************************************)

\* 2^n for n >= 0.
RECURSIVE Pow2(_)
Pow2(n) == IF n = 0 THEN 1 ELSE 2 * Pow2(n - 1)

\* a ^ b on the low n bits (uint8_t operator^ for n = 8).
RECURSIVE XorBits(_, _, _)
XorBits(a, b, n) ==
    IF n = 0 THEN 0
    ELSE ((a + b) % 2) + 2 * XorBits(a \div 2, b \div 2, n - 1)

Xor8(a, b) == XorBits(a, b, 8)

\* The value of a w-bit two's-complement pattern x in 0 .. 2^w - 1, w <= 24.
ToSigned(x, w) == IF x >= Pow2(w - 1) THEN x - Pow2(w) ELSE x

(***************************************************************************)
(* binary32 arithmetic on integer-valued operands.                        *)
(***************************************************************************)

\* Canonical form of m * 2^e: strip the factors of two out of m.
RECURSIVE Canon(_, _)
Canon(m, e) ==
    IF m = 0 THEN [m |-> 0, e |-> 0]
    ELSE IF m % 2 = 0 THEN Canon(m \div 2, e + 1)
    ELSE [m |-> m, e |-> e]

\* The least k >= 0 with -2^(24+k) <= v <= 2^(24+k): the binary exponent of
\* the unit in the last place of the binary32 nearest to the int32 v.
\* (k = 7 covers the rest of int32; 2^31 itself is never formed.)
RECURSIVE UlpExp(_, _)
UlpExp(v, k) ==
    IF k >= 7 THEN 7
    ELSE IF v >= -Pow2(24 + k) /\ v <= Pow2(24 + k) THEN k
    ELSE UlpExp(v, k + 1)

\* (float) v for an int32 v: round to nearest, ties to even, 24 significant
\* bits.  The implicit conversion of rawValue in "rawValue * scaleFactor".
IntToFloat(v) ==
    LET k   == UlpExp(v, 0)
        ulp == Pow2(k)
        q   == v \div ulp
        r   == v % ulp
        up  == (2 * r > ulp) \/ (2 * r = ulp /\ q % 2 = 1)
    IN  Canon(IF up THEN q + 1 ELSE q, k)

\* a * b in binary32 for operands whose mantissa product needs no more than
\* 24 bits (every scale factor of the model is a power of two).
FloatMul(a, b) == Canon(a.m * b.m, a.e + b.e)

(***************************************************************************)
(* CustomIC::ProtocolParser: pure parts.                                   *)
(***************************************************************************)

\* static const int MAX_BUFFER_SIZE.
MAX_BUFFER_SIZE == 65536

\* getPacketSize with the checksum byte counted whatever the flag says.
getPacketSizeAlwaysChecksum(channels, bytes, checksum) ==
    2 + (channels * bytes) + 1

\* int ProtocolParser::getPacketSize() const, as a function of the fields.
getPacketSize(channels, bytes, checksum) ==
    2 + (channels * bytes) + (IF checksum THEN 1 ELSE 0)

\* Bit 23 of u: the test "rawValue & 0x800000".
Bit23(u) == (u \div Pow2(23)) % 2 = 1

\* rawValue with the sign extension of the 24-bit case left out.
rawValueNoSignExtend(bytes, numBytes) ==
    CASE numBytes = 2 -> ToSigned((bytes[1] * 256) + bytes[2], 16)
      [] numBytes = 3 -> (bytes[1] * 65536) + (bytes[2] * 256) + bytes[3]
      [] numBytes = 4 ->
            (ToSigned(bytes[1], 8) * Pow2(24)) + (bytes[2] * 65536)
                + (bytes[3] * 256) + bytes[4]
      [] OTHER -> 0

\* The int32_t rawValue that bytesToSample decodes from bytes[0..numBytes-1]
\* (1-based here).  Case 3 ORs 0xFF000000 into a value below 2^24, which as
\* int32_t is that value minus 2^24.  Case 4 shifts bytes[0] into the sign
\* bit: the int32_t result is written with bytes[0] read as a signed byte.
rawValue(bytes, numBytes) ==
    CASE numBytes = 2 -> ToSigned((bytes[1] * 256) + bytes[2], 16)
      [] numBytes = 3 ->
            LET u == (bytes[1] * 65536) + (bytes[2] * 256) + bytes[3]
            IN  IF Bit23(u) THEN u - Pow2(24) ELSE u
      [] numBytes = 4 ->
            (ToSigned(bytes[1], 8) * Pow2(24)) + (bytes[2] * 65536)
                + (bytes[3] * 256) + bytes[4]
      [] OTHER -> 0

\* bytesToSample with a default case that decodes one count instead of
\* returning 0.0f.
bytesToSampleDefaultScale(bytes, numBytes, scale) ==
    IF numBytes \in {2, 3, 4}
    THEN FloatMul(IntToFloat(rawValue(bytes, numBytes)), scale)
    ELSE scale

\* float ProtocolParser::bytesToSample(const uint8_t* bytes, int numBytes).
bytesToSample(bytes, numBytes, scale) ==
    IF numBytes \in {2, 3, 4}
    THEN FloatMul(IntToFloat(rawValue(bytes, numBytes)), scale)
    ELSE Canon(0, 0)

\* XOR of packet[0 .. n-1] (1-based here: packet[1 .. n]).
RECURSIVE XorFold(_, _)
XorFold(packet, n) ==
    IF n = 0 THEN 0 ELSE Xor8(XorFold(packet, n - 1), packet[n])

\* validateChecksum with the XOR taken over the payload only, the two sync
\* bytes left out.
validateChecksumPayloadOnly(packet, size) ==
    Xor8(Xor8(XorFold(packet, size - 1), packet[1]), packet[2]) = packet[size]

\* bool ProtocolParser::validateChecksum(const uint8_t* packet, int size).
validateChecksum(packet, size) == XorFold(packet, size - 1) = packet[size]

\* The first size bytes dropped from a vector: erase(begin, begin + n).
Drop(buf, n) == SubSeq(buf, n + 1, Len(buf))

\* appendBytes refusing the new byte, not erasing the oldest, at the cap.
RECURSIVE appendBytesDropNewest(_, _, _)
appendBytesDropNewest(buf, bytes, cap) ==
    IF bytes = <<>> THEN buf
    ELSE appendBytesDropNewest(IF Len(buf) >= cap THEN buf
                               ELSE Append(buf, Head(bytes)),
                               Tail(bytes), cap)

\* appendBytes with the erase of the oldest byte left out.
appendBytesUncapped(buf, bytes, cap) == buf \o bytes

\* The append loop of parse(): push_back each byte, erasing the oldest byte
\* whenever the size exceeds the cap.
RECURSIVE appendBytes(_, _, _)
appendBytes(buf, bytes, cap) ==
    IF bytes = <<>> THEN buf
    ELSE LET pushed == Append(buf, Head(bytes))
         IN  appendBytes(IF Len(pushed) > cap THEN Tail(pushed) ELSE pushed,
                         Tail(bytes), cap)

\* The sync scan of parse(): the least i in 0 .. size - packetSize with
\* buffer[i] = syncByte1 and buffer[i+1] = syncByte2, or -1 (foundSync false).
RECURSIVE scanSync(_, _, _, _, _)
scanSync(buf, i, last, sync1, sync2) ==
    IF i > last THEN -1
    ELSE IF buf[i + 1] = sync1 /\ buf[i + 2] = sync2 THEN i
    ELSE scanSync(buf, i + 1, last, sync1, sync2)

findSync(buf, size, sync1, sync2) ==
    scanSync(buf, 0, Len(buf) - size, sync1, sync2)

\* decodePacket reading the samples from the start of the window, sync
\* bytes included.
decodePacketWithSync(window, channels, bytes, scale) ==
    [samples   |-> [ch \in 1 .. channels |->
                       bytesToSample(SubSeq(window, 1 + ((ch - 1) * bytes),
                                            ch * bytes), bytes, scale)],
     timestamp |-> 0,
     valid     |-> TRUE]

\* The sample loop of parse(): one DataPacket from the aligned window.
decodePacket(window, channels, bytes, scale) ==
    [samples   |-> [ch \in 1 .. channels |->
                       bytesToSample(SubSeq(window, 3 + ((ch - 1) * bytes),
                                            2 + (ch * bytes)), bytes, scale)],
     timestamp |-> 0,
     valid     |-> TRUE]

\* The no-sync branch that leaves the FrameBuffer as it is.
trimNoSyncKeepAll(buf) == buf

\* trimNoSync keeping the last three bytes.
trimNoSyncKeepThree(buf) ==
    IF Len(buf) > 3 THEN Drop(buf, Len(buf) - 3) ELSE buf

\* The no-sync branch of parse(): if (buffer.size() > 2) all but the last
\* two bytes are erased.
trimNoSync(buf) ==
    IF Len(buf) > 2 THEN Drop(buf, Len(buf) - 2) ELSE buf

\* parseIteration with the erase of one byte after a failed checksum left
\* out: the same sync would be found again.
parseIterationKeepOnBadChecksum(buf, size, cfg) ==
    LET syncPos == findSync(buf, size, cfg.syncByte1, cfg.syncByte2)
        aligned == Drop(buf, syncPos)
    IN  IF syncPos < 0
        THEN [kind    |-> "nosync",
              buffer  |-> trimNoSync(buf),
              packets |-> <<>>]
        ELSE IF Len(aligned) < size
        THEN [kind |-> "short", buffer |-> aligned, packets |-> <<>>]
        ELSE IF cfg.useChecksum /\ ~validateChecksum(aligned, size)
        THEN [kind |-> "badsum", buffer |-> aligned, packets |-> <<>>]
        ELSE [kind    |-> "packet",
              buffer  |-> Drop(aligned, size),
              packets |-> <<decodePacket(aligned, cfg.numChannels,
                                         cfg.bytesPerSample, cfg.scaleFactor)>>]

\* parseIteration erasing the whole candidate after a failed checksum.
parseIterationDropCandidate(buf, size, cfg) ==
    LET syncPos == findSync(buf, size, cfg.syncByte1, cfg.syncByte2)
        aligned == Drop(buf, syncPos)
    IN  IF syncPos < 0
        THEN [kind |-> "nosync", buffer |-> trimNoSync(buf), packets |-> <<>>]
        ELSE IF Len(aligned) < size
        THEN [kind |-> "short", buffer |-> aligned, packets |-> <<>>]
        ELSE IF cfg.useChecksum /\ ~validateChecksum(aligned, size)
        THEN [kind    |-> "badsum",
              buffer  |-> Drop(aligned, size),
              packets |-> <<>>]
        ELSE [kind    |-> "packet",
              buffer  |-> Drop(aligned, size),
              packets |-> <<decodePacket(aligned, cfg.numChannels,
                                         cfg.bytesPerSample, cfg.scaleFactor)>>]

\* parseIteration clearing the whole buffer after a packet.
parseIterationClearAfterPacket(buf, size, cfg) ==
    LET syncPos == findSync(buf, size, cfg.syncByte1, cfg.syncByte2)
        aligned == Drop(buf, syncPos)
    IN  IF syncPos < 0
        THEN [kind |-> "nosync", buffer |-> trimNoSync(buf), packets |-> <<>>]
        ELSE IF Len(aligned) < size
        THEN [kind |-> "short", buffer |-> aligned, packets |-> <<>>]
        ELSE IF cfg.useChecksum /\ ~validateChecksum(aligned, size)
        THEN [kind |-> "badsum", buffer |-> Tail(aligned), packets |-> <<>>]
        ELSE [kind    |-> "packet",
              buffer  |-> <<>>,
              packets |-> <<decodePacket(aligned, cfg.numChannels,
                                         cfg.bytesPerSample, cfg.scaleFactor)>>]

\* One iteration of the while loop of parse(), entered with
\* Len(buf) >= size.  kind tells how the iteration ends: "nosync" and
\* "short" break out of the loop, "badsum" and "packet" continue it.
parseIteration(buf, size, cfg) ==
    LET syncPos == findSync(buf, size, cfg.syncByte1, cfg.syncByte2)
        aligned == Drop(buf, syncPos)
    IN  IF syncPos < 0
        THEN [kind    |-> "nosync",
              buffer  |-> trimNoSync(buf),
              packets |-> <<>>]
        ELSE IF Len(aligned) < size
        THEN [kind |-> "short", buffer |-> aligned, packets |-> <<>>]
        ELSE IF cfg.useChecksum /\ ~validateChecksum(aligned, size)
        THEN [kind |-> "badsum", buffer |-> Tail(aligned), packets |-> <<>>]
        ELSE [kind    |-> "packet",
              buffer  |-> Drop(aligned, size),
              packets |-> <<decodePacket(aligned, cfg.numChannels,
                                         cfg.bytesPerSample, cfg.scaleFactor)>>]

\* The while loop of parse() run to its end from buffer buf with the packets
\* collected so far: [buffer, packets] at the return statement.
RECURSIVE parseLoop(_, _, _, _)
parseLoop(buf, size, cfg, got) ==
    IF Len(buf) < size THEN [buffer |-> buf, packets |-> got]
    ELSE LET it == parseIteration(buf, size, cfg)
         IN  IF it.kind \in {"nosync", "short"}
             THEN [buffer |-> it.buffer, packets |-> got]
             ELSE parseLoop(it.buffer, size, cfg, got \o it.packets)

\* One whole call parse(data, numBytes) on a parser with buffer buf.
parseCall(buf, bytes, cap, cfg) ==
    parseLoop(appendBytes(buf, bytes, cap),
              getPacketSize(cfg.numChannels, cfg.bytesPerSample, cfg.useChecksum),
              cfg, <<>>)

(***************************************************************************)
(* Bounds and input sets of the model.                                     *)
(***************************************************************************)

\* Length of the arbitrary byte streams fed to one parser session.
MaxStream == 6

\* The FrameBuffer cap of the specification SpecCap: MAX_BUFFER_SIZE scaled
\* down so that a read can overflow it.
CapModel == 5

\* The decoder is fed the integers within Near of each anchor value.
Near == 2

\* Channel count range of the configuration surface (registerParameters).
MinChannels == 1
MaxChannels == 256

\* int bufferSize = 1024: the samples the batch arrays are allocated for.
bufferSize == 1024

\* static const int READ_BUFFER_SIZE = 4096: the most one serial read takes.
READ_BUFFER_SIZE == 4096

\* Sample rate range of the configuration surface (registerParameters).
MinSampleRate == 1
MaxSampleRate == 100000

\* Bytes per sample of the data formats int16, int24, int32.
ByteWidths == {2, 3, 4}

\* Bytes of the arbitrary streams: the default sync bytes 0xA0, 0x5A and 0x00.
Alphabet == {160, 90, 0}

\* 1.0 and 2.0.  (The default 0.195f is no power of two; the scale factor
\* is drawn from these instead.)
ScaleFactors == {[m |-> 1, e |-> 0], [m |-> 1, e |-> 1]}

\* <<channels, bytesPerSample>> the parser is configured with while parsing.
ParserConfigs == {<<1, 2>>, <<2, 2>>}

\* Sync byte pairs set while parsing: the default, and a pair of equal bytes.
SyncPairs == {<<160, 90>>, <<160, 160>>}

\* The byte streams of the worked examples (channels = 2, width = 2):
\* A0 5A 00 0A 00 14 closed by 1E and by E4, and a packet with a corrupt
\* checksum followed by a valid packet.
ExampleClaimed == <<160, 90, 0, 10, 0, 20, 30>>
ExampleValid == <<160, 90, 0, 10, 0, 20, 228>>
ExampleCorrupt == <<160, 90, 0, 10, 0, 20, 255>>
ExampleSecond == <<160, 90, 0, 1, 0, 2, 249>>

\* The packet SYNC1 SYNC2 payload CHECKSUM of the wire format, default sync
\* bytes, checksum the XOR of the bytes before it.
packetOf(payload) ==
    LET body == <<160, 90>> \o payload
    IN  Append(body, XorFold(body, Len(body)))

\* Valid one-channel 16-bit packets.
SmallPackets == {packetOf(<<0, 90>>), packetOf(<<160, 90>>), packetOf(<<0, 0>>)}

\* The tail of a packet whose channel data are the sync bytes (its own sync
\* bytes already gone by), then a valid packet.
FalseStartStreams ==
    {SubSeq(packetOf(<<160, 90>>), 3, 5) \o p : p \in SmallPackets}

\* bytes with bit b of its i-th byte flipped.
flipBit(bytes, i, b) ==
    [bytes EXCEPT ![i] = IF (bytes[i] \div Pow2(b)) % 2 = 1
                         THEN bytes[i] - Pow2(b) ELSE bytes[i] + Pow2(b)]

\* A valid packet with one bit of its payload flipped, then a valid packet.
FlippedStreams ==
    {flipBit(p, i, b) \o q :
        p \in {packetOf(<<0, 90>>)}, i \in 3 .. 4, b \in 0 .. 7,
        q \in {packetOf(<<0, 0>>), packetOf(<<160, 90>>)}}

\* Streams fed beside the arbitrary ones.
Examples ==
    {ExampleClaimed, ExampleValid, ExampleCorrupt \o ExampleSecond}
        \cup FalseStartStreams \cup FlippedStreams

IsPrefix(s, t) == Len(s) <= Len(t) /\ SubSeq(t, 1, Len(s)) = s

\* The byte sequences a read may deliver after the bytes fed so far: any
\* bytes of Alphabet up to MaxStream in all, or the next bytes of an example.
NextData(fed) ==
    UNION {[1 .. k -> Alphabet] : k \in 1 .. (MaxStream - Len(fed))}
        \cup UNION {{SubSeq(x, Len(fed) + 1, j) : j \in (Len(fed) + 1) .. Len(x)} :
                       x \in {y \in Examples : IsPrefix(fed, y)}}

(***************************************************************************)
(* State.                                                                  *)
(***************************************************************************)
VARIABLES
    numChannels,     \* ProtocolParser::numChannels
    bytesPerSample,  \* ProtocolParser::bytesPerSample
    scaleFactor,     \* ProtocolParser::scaleFactor
    syncByte1,       \* ProtocolParser::syncByte1
    syncByte2,       \* ProtocolParser::syncByte2
    useChecksum,     \* ProtocolParser::useChecksum
    buffer,          \* ProtocolParser::buffer, the FrameBuffer
    pc,              \* where parse() is: "idle" (not called), "loop" (at the
                     \* while condition), "return" (at the return statement)
    data,            \* the bytes passed to the parse() call in progress
    packetSize,      \* the local packetSize of parse()
    packets,         \* the local packets of parse(), its return value
    cfgArgs,         \* history: the arguments of the last configure() call
    stream,          \* history: the bytes passed to parse() since reset()
    emitted,         \* history: the packets returned since reset()
    reconfigured,    \* history: configuration changed with bytes in stream
    dec,             \* the decoder round trip: input and result
    simulationMode,  \* CustomICThread::simulationMode
    connected,       \* CustomICThread::connected
    portName,        \* CustomICThread::portName
    serialOpen,      \* serial->isOpen(): SerialPort::fd >= 0
    sampleRate,      \* CustomICThread::sampleRate
    totalSamples,    \* CustomICThread::totalSamples
    initialTimestamp,\* CustomICThread::initialTimestamp: -1, or a fraction
    acq,             \* the acquisition thread: "stopped" (not started),
                     \* "running" (in its loop), "failed" (the loop left
                     \* because updateBuffer() returned false)
    published,       \* history: the samples handed to addToBuffer() since
                     \* startAcquisition(), as [index, timestamp]
    dataBufferSize,  \* the floats dataBuffer was last allocated for
    returned,        \* history: the last bool returned by connect(),
                     \* startAcquisition() or updateBuffer(), and the
                     \* local bytesRead of updateBuffer() (0 elsewhere)
    lastInput        \* history: the last value the host handed to a label
                     \* handler of the editor or to parameterValueChanged(),
                     \* as text

vars == <<numChannels, bytesPerSample, scaleFactor, syncByte1, syncByte2,
          useChecksum, buffer, pc, data, packetSize, packets,
          cfgArgs, stream, emitted, reconfigured, dec,
          simulationMode, connected, portName, serialOpen, sampleRate,
          totalSamples, initialTimestamp, acq, published, dataBufferSize,
          returned, lastInput>>

cfgVars == <<numChannels, bytesPerSample, scaleFactor, cfgArgs>>
syncVars == <<syncByte1, syncByte2>>
configVars == <<cfgVars, syncVars, useChecksum>>
callVars == <<data, packetSize, packets>>
connVars == <<simulationMode, connected, portName, serialOpen>>
sessionVars == <<totalSamples, initialTimestamp, published, dataBufferSize>>
hostVars == <<connVars, sessionVars, acq, returned>>
threadVars == <<hostVars, sampleRate, lastInput>>
otherVars == <<dec, threadVars>>

\* The configuration fields parse() reads.
Config ==
    [numChannels |-> numChannels, bytesPerSample |-> bytesPerSample,
     scaleFactor |-> scaleFactor, syncByte1 |-> syncByte1,
     syncByte2 |-> syncByte2, useChecksum |-> useChecksum]

\* The parser as constructed: the in-class initialisers of ProtocolParser.
ParserInit ==
    /\ numChannels = 8
    /\ bytesPerSample = 2
    /\ scaleFactor \in ScaleFactors
    /\ syncByte1 = 160
    /\ syncByte2 = 90
    /\ buffer = <<>>
    /\ pc = "idle"
    /\ data = <<>>
    /\ packetSize = 0
    /\ packets = <<>>
    /\ cfgArgs = [channels |-> 8, bytes |-> 2]
    /\ stream = <<>>
    /\ emitted = <<>>
    /\ reconfigured = FALSE

\* The thread as constructed: the in-class initialisers of CustomICThread.
\* Its numChannels, bytesPerSample and scaleFactor are the parser's
\* variables: every handler that writes them passes them to
\* parser->configure() before it returns.
ThreadInit ==
    /\ simulationMode = FALSE
    /\ connected = FALSE
    /\ portName = ""
    /\ serialOpen = FALSE
    /\ sampleRate = 256
    /\ totalSamples = 0
    /\ initialTimestamp = [n |-> -1, d |-> 1]
    /\ acq = "stopped"
    /\ published = <<>>
    /\ dataBufferSize = numChannels * bufferSize
    /\ returned = [op |-> "none", value |-> TRUE, bytesRead |-> 0]
    /\ lastInput = [name |-> "none", value |-> ""]

Init ==
    /\ ParserInit
    /\ ThreadInit
    /\ useChecksum = TRUE
    /\ dec = <<>>

(***************************************************************************)
(* Operations of ProtocolParser.                                           *)
(***************************************************************************)

\* void ProtocolParser::configure(int channels, int bytes, float scale).
configure(channels, bytes, scale) ==
    /\ pc = "idle"
    /\ numChannels' = channels
    /\ bytesPerSample' = bytes
    /\ scaleFactor' = scale
    /\ cfgArgs' = [channels |-> channels, bytes |-> bytes]
    /\ reconfigured' = (reconfigured \/ stream # <<>>)
    /\ UNCHANGED <<otherVars, syncVars, useChecksum, buffer, pc, callVars,
                   stream, emitted>>

\* void ProtocolParser::setSyncBytes(uint8_t sync1, uint8_t sync2).
setSyncBytes(sync1, sync2) ==
    /\ pc = "idle"
    /\ syncByte1' = sync1
    /\ syncByte2' = sync2
    /\ reconfigured' = (reconfigured \/ stream # <<>>)
    /\ UNCHANGED <<otherVars, cfgVars, useChecksum, buffer, pc, callVars,
                   stream, emitted>>

\* void ProtocolParser::reset().
reset ==
    /\ pc = "idle"
    /\ buffer' = <<>>
    /\ stream' = <<>>
    /\ emitted' = <<>>
    /\ reconfigured' = FALSE
    /\ UNCHANGED <<otherVars, configVars, pc, callVars>>

\* parse(data, numBytes), up to the while loop: the append loop and the
\* read of the packet size.
parseBegin(bytes, cap) ==
    /\ pc = "idle"
    /\ data' = bytes
    /\ buffer' = appendBytes(buffer, bytes, cap)
    /\ packetSize' = getPacketSize(numChannels, bytesPerSample, useChecksum)
    /\ packets' = <<>>
    /\ stream' = stream \o bytes
    /\ pc' = "loop"
    /\ UNCHANGED <<otherVars, configVars, emitted, reconfigured>>

\* The loop condition fails: parse() goes to its return statement.
parseExit ==
    /\ pc = "loop"
    /\ Len(buffer) < packetSize
    /\ pc' = "return"
    /\ UNCHANGED <<otherVars, configVars, buffer, callVars, stream, emitted,
                   reconfigured>>

\* An iteration that breaks out of the loop: no sync found, the buffer is
\* cut to its last two bytes (or the break after the alignment).
parseNoSync ==
    /\ pc = "loop"
    /\ Len(buffer) >= packetSize
    /\ LET it == parseIteration(buffer, packetSize, Config)
       IN  /\ it.kind \in {"nosync", "short"}
           /\ buffer' = it.buffer
    /\ pc' = "return"
    /\ UNCHANGED <<otherVars, configVars, callVars, stream,
                   emitted, reconfigured>>

\* An iteration that finds a sync whose window fails the checksum: one
\* byte is erased and the loop continues.
parseBadChecksum ==
    /\ pc = "loop"
    /\ Len(buffer) >= packetSize
    /\ LET it == parseIteration(buffer, packetSize, Config)
       IN  /\ it.kind = "badsum"
           /\ buffer' = it.buffer
    /\ UNCHANGED <<otherVars, configVars, pc, callVars,
                   stream, emitted, reconfigured>>

\* An iteration that decodes the aligned window into a packet and erases
\* packetSize bytes; the loop continues.
parsePacket ==
    /\ pc = "loop"
    /\ Len(buffer) >= packetSize
    /\ LET it == parseIteration(buffer, packetSize, Config)
       IN  /\ it.kind = "packet"
           /\ buffer' = it.buffer
           /\ packets' = packets \o it.packets
    /\ UNCHANGED <<otherVars, configVars, pc, data, packetSize,
                   stream, emitted, reconfigured>>

\* return packets: the caller receives the packets and the locals of the
\* call end.
parseReturn ==
    /\ pc = "return"
    /\ pc' = "idle"
    /\ emitted' = emitted \o packets
    /\ data' = <<>>
    /\ packetSize' = 0
    /\ packets' = <<>>
    /\ UNCHANGED <<otherVars, configVars, buffer, stream, reconfigured>>

parseStep ==
    parseExit \/ parseNoSync \/ parseBadChecksum \/ parsePacket \/ parseReturn

\* The caller passes the bytes of one read to parse().
read == \E d \in NextData(stream) : parseBegin(d, MAX_BUFFER_SIZE)

\* A parser driven by one caller: configuration, reset and reads in any order.
Next ==
    \/ \E c \in ParserConfigs, s \in ScaleFactors : configure(c[1], c[2], s)
    \/ \E sy \in SyncPairs : setSyncBytes(sy[1], sy[2])
    \/ reset
    \/ read
    \/ parseStep

Spec == Init /\ [][Next]_vars

(***************************************************************************)
(* SpecCap: the same parser with the FrameBuffer cap scaled to CapModel.   *)
(***************************************************************************)
readCap == \E d \in NextData(stream) : parseBegin(d, CapModel)

NextCap ==
    \/ \E c \in ParserConfigs, s \in ScaleFactors : configure(c[1], c[2], s)
    \/ \E sy \in SyncPairs : setSyncBytes(sy[1], sy[2])
    \/ reset
    \/ readCap
    \/ parseStep

SpecCap == Init /\ [][NextCap]_vars

(***************************************************************************)
(* SpecConfig: the configuration surface alone, over the whole range of    *)
(* channel counts and widths, with the checksum flag on or off             *)
(* (useChecksum is a protected field no operation writes).                 *)
(***************************************************************************)
InitConfig ==
    /\ ParserInit
    /\ ThreadInit
    /\ useChecksum \in BOOLEAN
    /\ dec = <<>>

NextConfig ==
    \/ \E c \in MinChannels .. MaxChannels, b \in ByteWidths, s \in ScaleFactors :
          configure(c, b, s)
    \/ \E sy \in SyncPairs : setSyncBytes(sy[1], sy[2])

SpecConfig == InitConfig /\ [][NextConfig]_vars

(***************************************************************************)
(* SpecDecode: bytesToSample applied to the big-endian encoding of an      *)
(* integer.                                                                *)
(***************************************************************************)

\* The least and the greatest width-byte two's-complement integer.
minValue(width) == (0 - Pow2((8 * width) - 2)) * 2
maxValue(width) == (Pow2((8 * width) - 2) - 1) + Pow2((8 * width) - 2)

\* The width-byte big-endian two's-complement encoding of v.
encodeBE(v, width) ==
    [i \in 1 .. width |-> (v \div Pow2(8 * (width - i))) % 256]

\* Values the decoder is fed: those within Near of the ends of the range,
\* of zero and of plus and minus 2^7, 2^8, 2^15, 2^16, 2^23, 2^24.
Anchors == {0} \cup UNION {{Pow2(k), -Pow2(k)} : k \in {7, 8, 15, 16, 23, 24}}

DecodeValues(width) ==
    {v \in UNION {(a - Near) .. (a + Near) : a \in Anchors} :
        v >= minValue(width) /\ v <= maxValue(width)}
        \cup {minValue(width) + d : d \in 0 .. Near}
        \cup {maxValue(width) - d : d \in 0 .. Near}

InitDecode ==
    /\ ParserInit
    /\ ThreadInit
    /\ useChecksum = TRUE
    /\ dec \in UNION {{[width |-> w, value |-> v, done |-> FALSE] :
                          v \in DecodeValues(w)} : w \in ByteWidths}

\* The encoded value goes through bytesToSample with the parser's scale factor.
decode ==
    /\ ~dec.done
    /\ dec' = [width  |-> dec.width,
               value  |-> dec.value,
               done   |-> TRUE,
               bytes  |-> encodeBE(dec.value, dec.width),
               raw    |-> rawValue(encodeBE(dec.value, dec.width), dec.width),
               result |-> bytesToSample(encodeBE(dec.value, dec.width),
                                        dec.width, scaleFactor)]
    /\ UNCHANGED <<threadVars, configVars, buffer, pc, callVars, stream, emitted, reconfigured>>

NextDecode == decode

SpecDecode == InitDecode /\ [][NextDecode]_vars

(***************************************************************************)
(* SpecWidth: the parser configured with a byte width that is none of 2,   *)
(* 3, 4 (setDataFormat passes any int on to configure).                    *)
(***************************************************************************)

\* <<channels, bytesPerSample>> with a width bytesToSample has no case for.
WidthConfigs == {<<1, 0>>, <<1, 1>>, <<2, 1>>, <<2, 5>>}

\* The packet of a configuration whose channel data are all zero bytes,
\* under the default sync bytes: 0xFA is 0xA0 xor 0x5A.
zeroPacket(channels, bytes) ==
    <<160, 90>> \o [i \in 1 .. (channels * bytes) |-> 0] \o <<250>>

WidthExamples == {zeroPacket(c[1], c[2]) : c \in WidthConfigs}

NextDataWidth(fed) ==
    UNION {[1 .. k -> Alphabet] : k \in 1 .. (MaxStream - Len(fed))}
        \cup UNION {{SubSeq(x, Len(fed) + 1, j) : j \in (Len(fed) + 1) .. Len(x)} :
                       x \in {y \in WidthExamples : IsPrefix(fed, y)}}

\* configure() as setDataFormat and setNumChannels call it, with such a width.
configureWidth ==
    \E c \in WidthConfigs, s \in ScaleFactors : configure(c[1], c[2], s)

readWidth == \E d \in NextDataWidth(stream) : parseBegin(d, MAX_BUFFER_SIZE)

NextWidth ==
    \/ configureWidth
    \/ readWidth
    \/ parseStep

SpecWidth == Init /\ [][NextWidth]_vars

(***************************************************************************)
(* CustomICThread: the control context (the editor's and the host's        *)
(* callbacks, all on the message thread) and the acquisition thread, which *)
(* calls updateBuffer() in a loop.  The two run concurrently: a callback   *)
(* may take place between any two steps of a parse() in progress.          *)
(***************************************************************************)

\* Samples published in one acquisition session of the model.
MaxSamples == 3

\* Bytes read from the serial port between two resets of the parser.
MaxBytes == 10

\* The port selector: no port, or one device.
PortNames == {"", "COM3"}

\* Channel counts entered while the thread is modelled with its connection.
ThreadChannels == {1, 2}

\* What one serial->read() may deliver: a garbage byte, a one-channel
\* packet, and two of them at once.
ThreadReads ==
    LET p == packetOf(<<0, 90>>)
    IN  {<<0>>, p, p \o p}

\* (int)(sampleRate / 10.0): a tenth of a second per cycle.
samplesPerUpdateTenth(rate) == rate \div 10

\* const int samplesPerUpdate = (int)(sampleRate / 100.0).
samplesPerUpdateOf(rate) == rate \div 100

\* (double) index / sampleRate, kept as the fraction n / d.
timestampOf(index, rate) == [n |-> index, d |-> rate]

\* timestamp - initialTimestamp.
relativeTo(t, anchor) ==
    [n |-> (t.n * anchor.d) - (anchor.n * t.d), d |-> t.d * anchor.d]

\* initialTimestamp after a batch of k samples starting at index total: the
\* first sample of a session sets it ("if (initialTimestamp < 0)").
anchorAfter(total, k, rate, anchor) ==
    IF anchor.n < 0 /\ k > 0 THEN timestampOf(total, rate) ELSE anchor

\* stampBatch numbering the samples of a batch from total + 1.
stampBatchFromOne(total, k, rate, anchor) ==
    [i \in 1 .. k |->
        [index     |-> total + i,
         timestamp |-> relativeTo(timestampOf(total + i, rate),
                                  anchorAfter(total, k, rate, anchor))]]

\* sampleNumbers[i] and timestampBuffer[i] of a batch of k samples.
stampBatch(total, k, rate, anchor) ==
    [i \in 1 .. k |->
        [index     |-> total + (i - 1),
         timestamp |-> relativeTo(timestampOf(total + (i - 1), rate),
                                  anchorAfter(total, k, rate, anchor))]]

\* void CustomICThread::setSimulationMode(bool simulate); the "simulate"
\* branch of parameterValueChanged does the same.
setSimulationMode(simulate) ==
    /\ simulationMode' = simulate
    /\ connected' = (IF simulate THEN TRUE ELSE connected)
    /\ UNCHANGED <<dec, portName, serialOpen, sessionVars, sampleRate, acq,
                   returned, lastInput, configVars, buffer, pc, callVars,
                   stream, emitted, reconfigured>>

\* void CustomICThread::setPort(const String& port).
setPort(port) ==
    /\ portName' = port
    /\ UNCHANGED <<dec, simulationMode, connected, serialOpen, sessionVars,
                   sampleRate, acq, returned, lastInput, configVars, buffer,
                   pc, callVars, stream, emitted, reconfigured>>

\* void CustomICThread::setNumChannels(int num): the field, then
\* parser->configure(), whatever the acquisition thread is doing.
setNumChannels(num) ==
    /\ numChannels' = num
    /\ cfgArgs' = [channels |-> num, bytes |-> bytesPerSample]
    /\ reconfigured' = (reconfigured \/ stream # <<>>)
    /\ UNCHANGED <<otherVars, bytesPerSample, scaleFactor, syncVars,
                   useChecksum, buffer, pc, callVars, stream, emitted>>

\* The outcome of connect(): its return value, whether the port is open
\* afterwards, and whether it reached parser->reset().  opened is the
\* result of serial->open(), which closes the port before it tries.
connectOutcome(opened) ==
    IF simulationMode
    THEN [value |-> TRUE, open |-> serialOpen, reset |-> FALSE]
    ELSE IF portName = ""
    THEN [value |-> FALSE, open |-> serialOpen, reset |-> FALSE]
    ELSE IF ~opened
    THEN [value |-> FALSE, open |-> FALSE, reset |-> FALSE]
    ELSE [value |-> TRUE, open |-> TRUE, reset |-> TRUE]

\* connect() that tries to open the port whatever portName is.
connectWithoutPortCheck ==
    \E opened \in BOOLEAN :
        /\ connected' = (IF simulationMode \/ opened THEN TRUE ELSE connected)
        /\ serialOpen' = (IF simulationMode THEN serialOpen ELSE opened)
        /\ buffer' = (IF ~simulationMode /\ opened THEN <<>> ELSE buffer)
        /\ stream' = (IF ~simulationMode /\ opened THEN <<>> ELSE stream)
        /\ emitted' = (IF ~simulationMode /\ opened THEN <<>> ELSE emitted)
        /\ reconfigured' = (IF ~simulationMode /\ opened THEN FALSE ELSE reconfigured)
        /\ returned' = [op |-> "connect", value |-> (simulationMode \/ opened),
                        bytesRead |-> 0]
        /\ UNCHANGED <<dec, simulationMode, portName, sessionVars, sampleRate,
                       acq, lastInput, configVars, pc, callVars>>

\* bool CustomICThread::connect().
connect ==
    \E opened \in BOOLEAN :
        LET out == connectOutcome(opened)
        IN  /\ connected' = (IF out.value THEN TRUE ELSE connected)
            /\ serialOpen' = out.open
            /\ buffer' = (IF out.reset THEN <<>> ELSE buffer)
            /\ stream' = (IF out.reset THEN <<>> ELSE stream)
            /\ emitted' = (IF out.reset THEN <<>> ELSE emitted)
            /\ reconfigured' = (IF out.reset THEN FALSE ELSE reconfigured)
            /\ returned' = [op |-> "connect", value |-> out.value, bytesRead |-> 0]
            /\ UNCHANGED <<dec, simulationMode, portName, sessionVars,
                           sampleRate, acq, lastInput, configVars, pc, callVars>>

\* The fields disconnect() may write, and those that tell the data source.
ThreadState ==
    [simulationMode |-> simulationMode, connected |-> connected,
     portName |-> portName, serialOpen |-> serialOpen, buffer |-> buffer]

\* disconnect() that leaves the parser as it is.
disconnectStateKeepBuffer(st) ==
    [st EXCEPT !.connected = FALSE,
               !.serialOpen = IF st.serialOpen THEN FALSE ELSE st.serialOpen]

\* The fields after disconnect(): connected = false, the port closed if it
\* is open, the parser reset.
disconnectState(st) ==
    [st EXCEPT !.connected = FALSE,
               !.serialOpen = IF st.serialOpen THEN FALSE ELSE st.serialOpen,
               !.buffer = <<>>]

\* void CustomICThread::disconnect(): called by the connect button when
\* connected, and by the destructor in any state.
disconnect ==
    /\ connected' = disconnectState(ThreadState).connected
    /\ serialOpen' = disconnectState(ThreadState).serialOpen
    /\ buffer' = disconnectState(ThreadState).buffer
    /\ stream' = <<>>
    /\ emitted' = <<>>
    /\ reconfigured' = FALSE
    /\ UNCHANGED <<dec, simulationMode, portName, sessionVars, sampleRate,
                   acq, returned, lastInput, configVars, pc, callVars>>

\* CustomICEditor::buttonClicked(connectButton).
buttonClickedConnect ==
    \/ connected /\ disconnect
    \/ ~connected /\ connect

\* startAcquisition() that sets the counters back before it tries to connect.
startAcquisitionResetFirst ==
    /\ acq # "running"
    /\ \E opened \in BOOLEAN :
        LET out == IF connected
                   THEN [value |-> TRUE, open |-> serialOpen, reset |-> FALSE]
                   ELSE connectOutcome(opened)
        IN  /\ serialOpen' = out.open
            /\ returned' = [op |-> "startAcquisition", value |-> out.value,
                            bytesRead |-> 0]
            /\ totalSamples' = 0
            /\ initialTimestamp' = [n |-> -1, d |-> 1]
            /\ IF out.value
               THEN /\ connected' = TRUE
                    /\ published' = <<>>
                    /\ dataBufferSize' = numChannels * bufferSize
                    /\ buffer' = <<>>
                    /\ stream' = <<>>
                    /\ emitted' = <<>>
                    /\ reconfigured' = FALSE
                    /\ acq' = "running"
               ELSE UNCHANGED <<connected, published, dataBufferSize, buffer,
                                stream, emitted, reconfigured, acq>>
    /\ UNCHANGED <<dec, simulationMode, portName, sampleRate, lastInput,
                   configVars, pc, callVars>>

\* bool CustomICThread::startAcquisition(): the host calls it while no
\* acquisition is running.
startAcquisition ==
    /\ acq # "running"
    /\ \E opened \in BOOLEAN :
        LET out == IF connected
                   THEN [value |-> TRUE, open |-> serialOpen, reset |-> FALSE]
                   ELSE connectOutcome(opened)
        IN  /\ serialOpen' = out.open
            /\ returned' = [op |-> "startAcquisition", value |-> out.value,
                            bytesRead |-> 0]
            /\ IF out.value
               THEN /\ connected' = TRUE
                    /\ totalSamples' = 0
                    /\ initialTimestamp' = [n |-> -1, d |-> 1]
                    /\ published' = <<>>
                    /\ dataBufferSize' = numChannels * bufferSize
                    /\ buffer' = <<>>
                    /\ stream' = <<>>
                    /\ emitted' = <<>>
                    /\ reconfigured' = FALSE
                    /\ acq' = "running"
               ELSE UNCHANGED <<connected, sessionVars, buffer, stream,
                                emitted, reconfigured, acq>>
    /\ UNCHANGED <<dec, simulationMode, portName, sampleRate, lastInput,
                   configVars, pc, callVars>>

\* stopAcquisition() that also sets the sample counter back.
stopAcquisitionResetCounter ==
    /\ acq = "running"
    /\ pc = "idle"
    /\ acq' = "stopped"
    /\ totalSamples' = 0
    /\ UNCHANGED <<dec, connVars, initialTimestamp, published, dataBufferSize,
                   sampleRate, returned, lastInput, configVars, buffer, pc,
                   callVars, stream, emitted, reconfigured>>

\* bool CustomICThread::stopAcquisition(): signalThreadShouldExit() and
\* stopThread(); the thread leaves its loop once the cycle in progress is over.
stopAcquisition ==
    /\ acq = "running"
    /\ pc = "idle"
    /\ acq' = "stopped"
    /\ UNCHANGED <<dec, connVars, sessionVars, sampleRate, returned, lastInput,
                   configVars, buffer, pc, callVars, stream, emitted,
                   reconfigured>>

\* generateSimulatedData() that also empties the FrameBuffer.
generateSimulatedDataResetParser ==
    /\ acq = "running"
    /\ pc = "idle"
    /\ simulationMode
    /\ LET samplesPerUpdate == samplesPerUpdateOf(sampleRate)
       IN  /\ totalSamples + samplesPerUpdate <= MaxSamples
           /\ published' = published \o stampBatch(totalSamples, samplesPerUpdate,
                                                   sampleRate, initialTimestamp)
           /\ initialTimestamp' = anchorAfter(totalSamples, samplesPerUpdate,
                                              sampleRate, initialTimestamp)
           /\ totalSamples' = totalSamples + samplesPerUpdate
    /\ buffer' = <<>>
    /\ returned' = [op |-> "updateBuffer", value |-> TRUE, bytesRead |-> 0]
    /\ UNCHANGED <<dec, connVars, dataBufferSize, sampleRate, acq, lastInput,
                   configVars, pc, callVars, stream, emitted, reconfigured>>

\* updateBuffer() in simulation mode: generateSimulatedData() publishes
\* (int)(sampleRate / 100.0) samples.  limit caps the sample counter.
generateSimulatedDataUpTo(limit) ==
    /\ acq = "running"
    /\ pc = "idle"
    /\ simulationMode
    /\ LET samplesPerUpdate == samplesPerUpdateOf(sampleRate)
       IN  /\ totalSamples + samplesPerUpdate <= limit
           /\ published' = published \o stampBatch(totalSamples, samplesPerUpdate,
                                                   sampleRate, initialTimestamp)
           /\ initialTimestamp' = anchorAfter(totalSamples, samplesPerUpdate,
                                              sampleRate, initialTimestamp)
           /\ totalSamples' = totalSamples + samplesPerUpdate
    /\ returned' = [op |-> "updateBuffer", value |-> TRUE, bytesRead |-> 0]
    /\ UNCHANGED <<dec, connVars, dataBufferSize, sampleRate, acq, lastInput,
                   configVars, buffer, pc, callVars, stream, emitted,
                   reconfigured>>

\* The simulated cycle of the thread model.
generateSimulatedData == generateSimulatedDataUpTo(MaxSamples)

\* updateBuffer() in live mode with the port closed: return false, on
\* which the loop of the acquisition thread ends.
updateBufferClosed ==
    /\ acq = "running"
    /\ pc = "idle"
    /\ ~simulationMode
    /\ ~serialOpen
    /\ returned' = [op |-> "updateBuffer", value |-> FALSE, bytesRead |-> 0]
    /\ acq' = "failed"
    /\ UNCHANGED <<dec, connVars, sessionVars, sampleRate, lastInput,
                   configVars, buffer, pc, callVars, stream, emitted,
                   reconfigured>>

\* updateBuffer() that gives up on a read error.
updateBufferReadErrorFatal(bytesRead) ==
    /\ acq = "running"
    /\ pc = "idle"
    /\ ~simulationMode
    /\ serialOpen
    /\ bytesRead <= 0
    /\ returned' = [op |-> "updateBuffer", value |-> bytesRead = 0,
                    bytesRead |-> bytesRead]
    /\ acq' = (IF bytesRead = 0 THEN "running" ELSE "failed")
    /\ UNCHANGED <<dec, connVars, sessionVars, sampleRate, lastInput,
                   configVars, buffer, pc, callVars, stream, emitted,
                   reconfigured>>

\* updateBuffer() in live mode when serial->read() returns bytesRead <= 0
\* (-1: read error, 0: nothing to read): the body of "if (bytesRead > 0)"
\* is skipped.
updateBufferNoBytes(bytesRead) ==
    /\ acq = "running"
    /\ pc = "idle"
    /\ ~simulationMode
    /\ serialOpen
    /\ bytesRead <= 0
    /\ returned' = [op |-> "updateBuffer", value |-> TRUE,
                    bytesRead |-> bytesRead]
    /\ UNCHANGED <<dec, connVars, sessionVars, sampleRate, acq, lastInput,
                   configVars, buffer, pc, callVars, stream, emitted,
                   reconfigured>>

\* updateBuffer() in live mode when serial->read() returns bytes: the call
\* of parser->parse() begins.
updateBufferRead ==
    /\ acq = "running"
    /\ ~simulationMode
    /\ serialOpen
    /\ totalSamples < MaxSamples
    /\ \E d \in ThreadReads :
          /\ Len(stream) + Len(d) <= MaxBytes
          /\ parseBegin(d, MAX_BUFFER_SIZE)

\* How an iteration of the loop of parse() ends, by the tests alone.
iterationKind(buf, size, cfg) ==
    LET syncPos == findSync(buf, size, cfg.syncByte1, cfg.syncByte2)
        aligned == Drop(buf, syncPos)
    IN  IF syncPos < 0 THEN "nosync"
        ELSE IF Len(aligned) < size THEN "short"
        ELSE IF cfg.useChecksum /\ ~validateChecksum(aligned, size) THEN "badsum"
        ELSE "packet"

\* The bytes the sample loop may read past the end of the vector: it reads
\* numChannels * bytesPerSample bytes from buffer.data() + 2 whatever the
\* size of the vector is, and what lies behind the vector's last element
\* is whatever the reserved storage holds.
staleBytes(buf, size, cfg) ==
    LET syncPos == findSync(buf, size, cfg.syncByte1, cfg.syncByte2)
        need    == (2 + (cfg.numChannels * cfg.bytesPerSample))
                       - (Len(buf) - syncPos)
    IN  IF iterationKind(buf, size, cfg) = "packet" /\ need > 0
        THEN [1 .. need -> Alphabet]
        ELSE {<<>>}

\* parseIteration when the sample loop reads stale behind the vector.
parseIterationStale(buf, size, cfg, stale) ==
    LET syncPos == findSync(buf, size, cfg.syncByte1, cfg.syncByte2)
        aligned == Drop(buf, syncPos)
        kind    == iterationKind(buf, size, cfg)
    IN  IF kind = "nosync"
        THEN [kind    |-> kind,
              buffer  |-> trimNoSync(buf),
              packets |-> <<>>]
        ELSE IF kind = "short"
        THEN [kind |-> kind, buffer |-> aligned, packets |-> <<>>]
        ELSE IF kind = "badsum"
        THEN [kind |-> kind, buffer |-> Tail(aligned), packets |-> <<>>]
        ELSE [kind    |-> kind,
              buffer  |-> Drop(aligned, size),
              packets |-> <<decodePacket(aligned \o stale, cfg.numChannels,
                                         cfg.bytesPerSample, cfg.scaleFactor)>>]

\* One iteration of the loop of parse() on the acquisition thread, with the
\* configuration fields as they are when the iteration runs.
parseIterate ==
    /\ pc = "loop"
    /\ Len(buffer) >= packetSize
    /\ \E stale \in staleBytes(buffer, packetSize, Config) :
          LET it == parseIterationStale(buffer, packetSize, Config, stale)
          IN  /\ buffer' = it.buffer
              /\ packets' = packets \o it.packets
              /\ pc' = (IF it.kind \in {"nosync", "short"} THEN "return" ELSE "loop")
    /\ UNCHANGED <<otherVars, configVars, data, packetSize, stream, emitted,
                   reconfigured>>

\* updateBuffer() after parse() has returned: the packets are numbered,
\* stamped and handed to addToBuffer(), and updateBuffer() returns true.
updateBufferPublish ==
    /\ pc = "return"
    /\ LET numPackets == Len(packets)
       IN  /\ published' = published \o stampBatch(totalSamples, numPackets,
                                                   sampleRate, initialTimestamp)
           /\ initialTimestamp' = anchorAfter(totalSamples, numPackets,
                                              sampleRate, initialTimestamp)
           /\ totalSamples' = totalSamples + numPackets
    /\ pc' = "idle"
    /\ emitted' = emitted \o packets
    /\ data' = <<>>
    /\ packetSize' = 0
    /\ packets' = <<>>
    /\ returned' = [op |-> "updateBuffer", value |-> TRUE,
                    bytesRead |-> Len(data)]
    /\ UNCHANGED <<dec, connVars, dataBufferSize, sampleRate, acq, lastInput,
                   configVars, buffer, stream, reconfigured>>

(***************************************************************************)
(* SpecThread: connection, acquisition and channel-count changes.          *)
(***************************************************************************)
NextThread ==
    \/ \E simulate \in BOOLEAN : setSimulationMode(simulate)
    \/ \E port \in PortNames : setPort(port)
    \/ \E num \in ThreadChannels : setNumChannels(num)
    \/ buttonClickedConnect
    \/ disconnect
    \/ startAcquisition
    \/ stopAcquisition
    \/ generateSimulatedData
    \/ updateBufferClosed
    \/ \E bytesRead \in {-1, 0} : updateBufferNoBytes(bytesRead)
    \/ updateBufferRead
    \/ parseExit
    \/ parseIterate
    \/ updateBufferPublish

\* The scale factor plays no part here: 1.0.
InitThread == Init /\ scaleFactor = [m |-> 1, e |-> 0]

SpecThread == InitThread /\ [][NextThread]_vars

(***************************************************************************)
(* SpecEditor: the configuration surface of the plugin, i.e. the label and *)
(* combo-box handlers of CustomICEditor and                                *)
(* CustomICThread::parameterValueChanged().  A label text is modelled by   *)
(* the int or float that getIntValue() / getFloatValue() returns for it.   *)
(***************************************************************************)

\* Values typed into the channels label, the rate label and the scale label.
ChannelTexts == {-1, 0, 1, 2, 256, 257}
RateTexts == {-1, 0, 1, 100, 100000, 100001}
ScaleTexts == ScaleFactors \cup {[m |-> 0, e |-> 0]}

\* The item ids of formatSelector.
FormatIds == {2, 3, 4}

\* Parameter names the host may report, one of them a checksum switch, and
\* the values the host hands over for each (within the registered ranges).
ParamNames ==
    {"simulate", "channels", "sample_rate", "port", "baud_rate",
     "data_format", "scale_factor", "sync_byte_1", "sync_byte_2",
     "use_checksum"}

ParamValues(name) ==
    CASE name \in {"simulate", "use_checksum"} -> BOOLEAN
      [] name = "channels" -> {1, 2, 256}
      [] name = "sample_rate" -> {1, 100, 100000}
      [] name = "port" -> PortNames
      [] name = "baud_rate" -> {115200}
      [] name = "data_format" -> {0, 1, 2}
      [] name = "scale_factor" -> ScaleFactors
      [] OTHER -> {160, 90}

\* The channels test without its lower limit.
validChannelsNoLowerLimit(channels) == channels <= 256

\* channels > 0 && channels <= 256
validChannels(channels) == channels > 0 /\ channels <= 256

\* rate > 0 && rate <= 100000
validRate(rate) == rate > 0 /\ rate <= 100000

\* scale != 0
validScale(scale) == scale.m # 0

\* labelTextChanged(channelValue): setNumChannels(channels) if the value
\* passes the test, else the label is set back.
labelTextChangedChannelValue(channels) ==
    /\ lastInput' = [name |-> "channelValue", value |-> ToString(channels)]
    /\ IF validChannels(channels)
         THEN /\ numChannels' = channels
              /\ cfgArgs' = [channels |-> channels, bytes |-> bytesPerSample]
              /\ reconfigured' = (reconfigured \/ stream # <<>>)
         ELSE UNCHANGED <<numChannels, cfgArgs, reconfigured>>
    /\ UNCHANGED <<dec, hostVars, sampleRate, bytesPerSample, scaleFactor,
                   syncVars, useChecksum, buffer, pc, callVars, stream,
                   emitted>>

\* labelTextChanged(sampleRateValue): setSampleRate(rate) if the value
\* passes the test, else the label is set back.
labelTextChangedSampleRateValue(rate) ==
    /\ lastInput' = [name |-> "sampleRateValue", value |-> ToString(rate)]
    /\ sampleRate' = (IF validRate(rate) THEN rate ELSE sampleRate)
    /\ UNCHANGED <<dec, hostVars, configVars, buffer, pc, callVars, stream,
                   emitted, reconfigured>>

\* labelTextChanged(scaleValue): setScaleFactor(scale) if scale != 0.
labelTextChangedScaleValue(scale) ==
    /\ lastInput' = [name |-> "scaleValue", value |-> ToString(scale)]
    /\ IF validScale(scale)
         THEN /\ scaleFactor' = scale
              /\ cfgArgs' = [channels |-> numChannels, bytes |-> bytesPerSample]
              /\ reconfigured' = (reconfigured \/ stream # <<>>)
         ELSE UNCHANGED <<scaleFactor, cfgArgs, reconfigured>>
    /\ UNCHANGED <<dec, hostVars, sampleRate, numChannels, bytesPerSample,
                   syncVars, useChecksum, buffer, pc, callVars, stream,
                   emitted>>

\* labelTextChanged(sync1Value or sync2Value): setSyncBytes with the bytes
\* of both labels, unchecked.
labelTextChangedSyncValue(sync1, sync2) ==
    /\ lastInput' = [name |-> "syncValue", value |-> ToString(<<sync1, sync2>>)]
    /\ syncByte1' = sync1
    /\ syncByte2' = sync2
    /\ reconfigured' = (reconfigured \/ stream # <<>>)
    /\ UNCHANGED <<dec, hostVars, sampleRate, cfgVars, useChecksum, buffer,
                   pc, callVars, stream, emitted>>

\* comboBoxChanged(formatSelector): setDataFormat(selected id).
comboBoxChangedFormat(bytes) ==
    /\ lastInput' = [name |-> "formatSelector", value |-> ToString(bytes)]
    /\ bytesPerSample' = bytes
    /\ cfgArgs' = [channels |-> numChannels, bytes |-> bytes]
    /\ reconfigured' = (reconfigured \/ stream # <<>>)
    /\ UNCHANGED <<dec, hostVars, sampleRate, numChannels, scaleFactor,
                   syncVars, useChecksum, buffer, pc, callVars, stream,
                   emitted>>

\* void CustomICThread::parameterValueChanged(Parameter* param): one branch
\* per name; a name no branch tests changes nothing.  baudRate is not part
\* of the state, and the sync byte of the other parameter is the host's.
parameterValueChanged(name, value) ==
    /\ lastInput' = [name |-> name, value |-> ToString(value)]
    /\ CASE name = "simulate" ->
              /\ simulationMode' = value
              /\ connected' = (IF value THEN TRUE ELSE connected)
              /\ UNCHANGED <<portName, sampleRate, configVars, reconfigured>>
         [] name = "channels" ->
              /\ numChannels' = value
              /\ cfgArgs' = [channels |-> value, bytes |-> bytesPerSample]
              /\ reconfigured' = (reconfigured \/ stream # <<>>)
              /\ UNCHANGED <<simulationMode, connected, portName, sampleRate,
                             bytesPerSample, scaleFactor, syncVars, useChecksum>>
         [] name = "sample_rate" ->
              /\ sampleRate' = value
              /\ UNCHANGED <<simulationMode, connected, portName, configVars,
                             reconfigured>>
         [] name = "port" ->
              /\ portName' = value
              /\ UNCHANGED <<simulationMode, connected, sampleRate, configVars,
                             reconfigured>>
         [] name = "data_format" ->
              /\ bytesPerSample' = value + 2
              /\ cfgArgs' = [channels |-> numChannels, bytes |-> value + 2]
              /\ reconfigured' = (reconfigured \/ stream # <<>>)
              /\ UNCHANGED <<simulationMode, connected, portName, sampleRate,
                             numChannels, scaleFactor, syncVars, useChecksum>>
         [] name = "scale_factor" ->
              /\ scaleFactor' = value
              /\ cfgArgs' = [channels |-> numChannels, bytes |-> bytesPerSample]
              /\ reconfigured' = (reconfigured \/ stream # <<>>)
              /\ UNCHANGED <<simulationMode, connected, portName, sampleRate,
                             numChannels, bytesPerSample, syncVars, useChecksum>>
         [] name = "sync_byte_1" ->
              /\ syncByte1' = value
              /\ \E sync2 \in {160, 90} : syncByte2' = sync2
              /\ reconfigured' = (reconfigured \/ stream # <<>>)
              /\ UNCHANGED <<simulationMode, connected, portName, sampleRate,
                             cfgVars, useChecksum>>
         [] name = "sync_byte_2" ->
              /\ \E sync1 \in {160, 90} : syncByte1' = sync1
              /\ syncByte2' = value
              /\ reconfigured' = (reconfigured \/ stream # <<>>)
              /\ UNCHANGED <<simulationMode, connected, portName, sampleRate,
                             cfgVars, useChecksum>>
         [] OTHER ->
              UNCHANGED <<simulationMode, connected, portName, sampleRate,
                          configVars, reconfigured>>
    /\ UNCHANGED <<dec, serialOpen, sessionVars, acq, returned, buffer, pc,
                   callVars, stream, emitted>>

NextEditor ==
    \/ \E channels \in ChannelTexts : labelTextChangedChannelValue(channels)
    \/ \E rate \in RateTexts : labelTextChangedSampleRateValue(rate)
    \/ \E scale \in ScaleTexts : labelTextChangedScaleValue(scale)
    \/ \E sync \in SyncPairs : labelTextChangedSyncValue(sync[1], sync[2])
    \/ \E bytes \in FormatIds : comboBoxChangedFormat(bytes)
    \/ \E name \in ParamNames :
          \E value \in ParamValues(name) : parameterValueChanged(name, value)

SpecEditor == InitThread /\ [][NextEditor]_vars

(***************************************************************************)
(* SpecPackets: the parser fed streams of back-to-back valid packets of    *)
(* one 16-bit channel, cut into parse() calls at every position, with the  *)
(* FrameBuffer cap scaled to CapPackets.                                   *)
(***************************************************************************)

\* Packets in one stream.
MaxPackets == 3

\* The scaled cap: more than two packets, less than three.
CapPackets == 12

\* The packets of the streams: SmallPackets and A0 5A 00 A0 5A, a packet
\* that ends in the sync pair.
StreamPackets == SmallPackets \cup {packetOf(<<0, 160>>)}

\* The concatenations of k packets of StreamPackets.
RECURSIVE packetStreams(_)
packetStreams(k) ==
    IF k = 0 THEN {<<>>}
    ELSE {s \o q : s \in packetStreams(k - 1), q \in StreamPackets}

\* The bytes a read may deliver after fed: the next bytes, up to any
\* position, of a stream of MaxPackets packets.
NextPacketData(fed) ==
    UNION {{SubSeq(x, Len(fed) + 1, j) : j \in (Len(fed) + 1) .. Len(x)} :
              x \in {y \in packetStreams(MaxPackets) : IsPrefix(fed, y)}}

\* configure() for one channel of 16 bits, before any byte is fed.
configurePackets ==
    /\ stream = <<>>
    /\ \E s \in ScaleFactors : configure(1, 2, s)

readPackets == \E d \in NextPacketData(stream) : parseBegin(d, CapPackets)

NextPackets ==
    \/ configurePackets
    \/ reset
    \/ readPackets
    \/ parseStep

SpecPackets == Init /\ [][NextPackets]_vars

(***************************************************************************)
(* SpecRate: the simulated acquisition with the sample rate and the        *)
(* channel count changed from the control context at any time.  realloc()  *)
(* in startAcquisition() is taken to succeed.                              *)
(***************************************************************************)

\* The sample counter of SpecRate stops here.
MaxRateSamples == 12

\* Sample rates of the configuration surface (1 .. 100000): one below 100
\* and two above.
SampleRates == {50, 100, 500}

\* Channel counts of the configuration surface (1 .. 256): its two ends.
RateChannels == {MinChannels, MaxChannels}

\* void CustomICThread::setSampleRate(float rate); the "sample_rate" branch
\* of parameterValueChanged stores the same field.
setSampleRate(rate) ==
    /\ sampleRate' = rate
    /\ UNCHANGED <<dec, hostVars, lastInput, configVars, buffer, pc, callVars,
                   stream, emitted, reconfigured>>

\* The simulated cycle of SpecRate.
generateSimulatedDataRate == generateSimulatedDataUpTo(MaxRateSamples)

NextRate ==
    \/ \E simulate \in BOOLEAN : setSimulationMode(simulate)
    \/ \E rate \in SampleRates : setSampleRate(rate)
    \/ \E num \in RateChannels : setNumChannels(num)
    \/ startAcquisition
    \/ stopAcquisition
    \/ generateSimulatedDataRate
    \/ updateBufferClosed

SpecRate == InitThread /\ [][NextRate]_vars

(***************************************************************************)
(* Claims.                                                                 *)
(***************************************************************************)

\* The configuration of the worked examples: channels = 2, width = 2,
\* scale = 1.0, sync bytes (0xA0, 0x5A), checksum enabled.
ExampleConfig ==
    /\ numChannels = 2
    /\ bytesPerSample = 2
    /\ scaleFactor = [m |-> 1, e |-> 0]
    /\ syncByte1 = 160
    /\ syncByte2 = 90
    /\ useChecksum

\* The DataPacket whose samples are the integers of values, as floats.
packetWith(values) ==
    [samples   |-> [i \in 1 .. Len(values) |-> Canon(values[i], 0)],
     timestamp |-> 0,
     valid     |-> TRUE]

\* The parse() call in progress is the first one since the FrameBuffer was
\* empty, and it is at its return statement.
ReturnsFromFirstCall == pc = "return" /\ stream = data

\* C1: for every channel count in 1..256, width in {2,3,4} and checksum flag,
\* and after any sequence of configure() calls, getPacketSize() is
\* 2 + channels * bytesPerSample + (1 if the checksum is enabled, else 0),
\* channels and bytesPerSample being those of the last configure() call.
C1_PacketSize ==
    getPacketSize(numChannels, bytesPerSample, useChecksum)
        = 2 + (cfgArgs.channels * cfgArgs.bytes) + (IF useChecksum THEN 1 ELSE 0)

C1_Witness ==
    /\ cfgArgs = [channels |-> 256, bytes |-> 4]
    /\ ~useChecksum
    /\ getPacketSize(numChannels, bytesPerSample, useChecksum) = 1026

\* C2 as claimed: parse() called on A0 5A 00 0A 00 14 1E with an empty
\* FrameBuffer returns exactly one packet with samples [10.0, 20.0].
C2_Claimed ==
    (ReturnsFromFirstCall /\ ExampleConfig /\ data = ExampleClaimed)
        => packets = <<packetWith(<<10, 20>>)>>

\* C2 amended: the XOR of A0 5A 00 0A 00 14 is E4.  parse() called on
\* A0 5A 00 0A 00 14 E4 with an empty FrameBuffer returns exactly one packet
\* with samples [10.0, 20.0]; called on A0 5A 00 0A 00 14 1E it returns none.
C2_Example ==
    (ReturnsFromFirstCall /\ ExampleConfig)
        => /\ data = ExampleValid => packets = <<packetWith(<<10, 20>>)>>
           /\ data = ExampleClaimed => packets = <<>>

C2_Witness ==
    /\ ReturnsFromFirstCall
    /\ ExampleConfig
    /\ data = ExampleValid
    /\ packets = <<packetWith(<<10, 20>>)>>
    /\ buffer = <<>>

\* The packet the parser decodes from a window under its configuration.
decodeOf(window) ==
    decodePacket(window, numChannels, bytesPerSample, scaleFactor)

\* bytes is one well-formed packet of the configuration: packet size long,
\* led by the sync bytes, closed by the XOR of the bytes before.
IsPacket(bytes) ==
    LET size == getPacketSize(numChannels, bytesPerSample, useChecksum)
    IN  /\ Len(bytes) = size
        /\ bytes[1] = syncByte1
        /\ bytes[2] = syncByte2
        /\ validateChecksum(bytes, size)

\* One channel of 16 bits, default sync bytes, checksum enabled: packets
\* of 5 bytes.
SmallConfig ==
    /\ numChannels = 1
    /\ bytesPerSample = 2
    /\ syncByte1 = 160
    /\ syncByte2 = 90
    /\ useChecksum

\* The bytes of stream have all been parsed under one configuration.
Parsed == pc = "idle" /\ ~reconfigured

\* C3: fragmentation invariance.  However the stream is split into parse()
\* calls, from an empty FrameBuffer and under one configuration, the packets
\* returned are those of a single parse() call on the whole stream.
C3_FragmentationInvariance ==
    Parsed => emitted = parseCall(<<>>, stream, MAX_BUFFER_SIZE, Config).packets

\* C4: resynchronization (taken at the default sync bytes).  One garbage
\* byte followed by one valid packet yields exactly that packet, and at
\* most packetSize + 1 bytes leave the stream.
C4_Resynchronization ==
    (/\ Parsed
     /\ useChecksum /\ syncByte1 = 160 /\ syncByte2 = 90
     /\ stream # <<>>
     /\ IsPacket(Tail(stream)))
        => /\ emitted = <<decodeOf(Tail(stream))>>
           /\ Len(stream) - Len(buffer)
                 <= getPacketSize(numChannels, bytesPerSample, useChecksum) + 1

\* C5: the packet with the corrupt checksum A0 5A 00 0A 00 14 FF followed
\* by the valid packet A0 5A 00 01 00 02 F9 yields exactly one packet, the
\* second, with samples [1.0, 2.0].
C5_CorruptThenValid ==
    (Parsed /\ ExampleConfig /\ stream = ExampleCorrupt \o ExampleSecond)
        => emitted = <<packetWith(<<1, 2>>)>>

\* C6: parse() never livelocks.  Whenever the extraction loop runs an
\* iteration, the iteration either leaves the loop or leaves the FrameBuffer
\* strictly shorter, so the loop ends after at most Len(buffer) iterations.
C6_NoLivelock ==
    (pc = "loop" /\ Len(buffer) >= packetSize)
        => LET it == parseIteration(buffer, packetSize, Config)
           IN  \/ it.kind \in {"nosync", "short"}
               \/ Len(it.buffer) < Len(buffer)

\* The loop has retried after the failed checksum of the corrupt example and
\* has another iteration to run.
C6_Witness ==
    /\ pc = "loop"
    /\ ExampleConfig
    /\ data = ExampleCorrupt \o ExampleSecond
    /\ buffer = Tail(data)
    /\ Len(buffer) >= packetSize

\* C7: false-sync recovery.  When the stream holds the sync bytes inside
\* channel data and a valid packet right after, that packet is emitted with
\* its own samples, and no other packet in its place.
C7_FalseSyncRecovery ==
    (Parsed /\ SmallConfig /\ stream \in FalseStartStreams)
        => emitted = <<decodeOf(Drop(stream, 3))>>

\* C8: checksum rejection.  A packet with one payload bit flipped is not
\* emitted, and the valid packet appended after it is emitted exactly once
\* with its own samples.
C8_ChecksumRejection ==
    (Parsed /\ SmallConfig /\ stream \in FlippedStreams)
        => emitted = <<decodeOf(Drop(stream, 5))>>

\* C9: buffer bound, with the cap of SpecCap in the place of
\* MAX_BUFFER_SIZE.  The FrameBuffer never holds more bytes than the cap,
\* during and after every parse() call, whatever the bytes read.
C9_BufferBound == Len(buffer) <= CapModel

\* One read longer than the cap has been appended: the buffer is full.
C9_Witness ==
    /\ pc = "loop"
    /\ Len(data) > CapModel
    /\ Len(buffer) = CapModel

\* The product value x scale, taken in the reals.
exactProduct(value, scale) == Canon(value * scale.m, scale.e)

C11_OtherWidths ==
    (bytesPerSample \notin {2, 3, 4})
        => /\ \A i \in 1 .. Len(packets) :
                 packets[i].samples = [ch \in 1 .. numChannels |-> Canon(0, 0)]
           /\ (pc = "loop" /\ Len(buffer) >= packetSize)
                 => LET it == parseIteration(buffer, packetSize, Config)
                    IN  \/ it.kind \in {"nosync", "short"}
                        \/ Len(it.buffer) < Len(buffer)

\* parse() returns a packet of two channels decoded with width 5.
C11_Witness ==
    /\ pc = "return"
    /\ numChannels = 2
    /\ bytesPerSample = 5
    /\ stream = zeroPacket(2, 5)
    /\ Len(packets) = 1

\* C12: connect() with simulation off and no port configured returns false
\* and leaves the thread disconnected, the port closed and the FrameBuffer
\* as it was.
C12_ConnectNoPort ==
    [][(connect /\ ~simulationMode /\ portName = "")
          => /\ returned'.value = FALSE
             /\ ~connected'
             /\ ~serialOpen'
             /\ buffer' = buffer]_vars

\* connect() has just failed for want of a port.
C12_Witness ==
    /\ returned = [op |-> "connect", value |-> FALSE, bytesRead |-> 0]
    /\ ~simulationMode
    /\ portName = ""
    /\ ~connected
    /\ ~serialOpen

\* C13: from every state disconnect() leaves connected = false, the port
\* closed and the FrameBuffer empty, and a second disconnect() leaves the
\* state as the first left it.
C13_Disconnect ==
    LET once == disconnectState(ThreadState)
    IN  /\ ~once.connected
        /\ ~once.serialOpen
        /\ once.buffer = <<>>
        /\ disconnectState(once) = once

\* A live connection with bytes in the FrameBuffer, about to be disconnected.
C13_Witness ==
    /\ connected
    /\ serialOpen
    /\ ~simulationMode
    /\ buffer # <<>>
    /\ pc = "idle"

\* C14: no operation changes the simulation flag while isConnected() is
\* true or while the acquisition loop is running.
C14_ModeSwitchOnlyDisconnected ==
    [][(simulationMode' # simulationMode)
          => (~connected /\ acq # "running")]_vars

\* C15: while a parse() call is in its loop, the packet size it frames with
\* is the packet size of the configuration it decodes with.
C15_NoConfigMidParse ==
    (pc = "loop")
        => packetSize = getPacketSize(numChannels, bytesPerSample, useChecksum)

\* C16: a live updateBuffer() cycle whose read returns a negative value or 0
\* publishes nothing, leaves the FrameBuffer, the sample counter and the
\* timestamp anchor as they are, and returns true.
C16_ReadErrorIsZeroBytes ==
    [][(\E bytesRead \in {-1, 0} : updateBufferNoBytes(bytesRead))
          => /\ returned'.value = TRUE
             /\ acq' = "running"
             /\ UNCHANGED <<buffer, totalSamples, initialTimestamp, published>>]_vars

\* A read error in a session that has bytes buffered and samples published.
C16_Witness ==
    /\ returned = [op |-> "updateBuffer", value |-> TRUE, bytesRead |-> -1]
    /\ acq = "running"
    /\ buffer # <<>>
    /\ totalSamples > 0

\* C17: updateBuffer() never returns false: only a stop request ends the
\* acquisition loop.
C17_LoopEndsOnlyOnStop ==
    (returned.op = "updateBuffer") => returned.value

\* C18: the samples published in a session are numbered 0, 1, 2, ... in
\* order, one per packet parse() returned, and the first has timestamp 0.
C18_SampleIndices ==
    [][/\ \A i \in 1 .. Len(published') : published'[i].index = i - 1
       /\ totalSamples' = Len(published')
       /\ published' # <<>> => published'[1].timestamp.n = 0
       /\ updateBufferPublish
             => Len(published') = Len(published) + Len(packets)]_vars

\* A batch of two packets has been published in a live session.
C18_Witness ==
    /\ returned = [op |-> "updateBuffer", value |-> TRUE, bytesRead |-> 10]
    /\ ~simulationMode
    /\ Len(published) = 2
    /\ published[2].index = 1

\* C19: a channel count outside 1..256, a sample rate outside (0, 100000]
\* or a zero scale factor typed into the editor leaves the channel count,
\* the sample rate, the scale factor and the parser configuration as they
\* were.
C19_InvalidRejected ==
    [][(\/ \E channels \in ChannelTexts \ (1 .. 256) :
              labelTextChangedChannelValue(channels)
        \/ \E rate \in {r \in RateTexts : r <= 0 \/ r > 100000} :
              labelTextChangedSampleRateValue(rate)
        \/ labelTextChangedScaleValue([m |-> 0, e |-> 0]))
          => UNCHANGED <<numChannels, sampleRate, scaleFactor, bytesPerSample,
                         syncVars, cfgArgs>>]_vars

\* A channel count of 0 has just been typed after valid values were set.
C19_Witness ==
    /\ lastInput = [name |-> "channelValue", value |-> "0"]
    /\ numChannels = 2
    /\ sampleRate = 100
    /\ scaleFactor = [m |-> 1, e |-> 1]

\* C20: when the host switches the checksum parameter, the parser's
\* checksum flag takes the value it asked for.
C20_ChecksumSwitch ==
    (lastInput.name = "use_checksum") => (useChecksum = (lastInput.value = "TRUE"))

\* C21 as claimed: after an iteration of parse() that finds no sync position
\* the FrameBuffer holds at most 1 byte.
C21_Claimed ==
    [][(/\ pc = "loop"
        /\ Len(buffer) >= packetSize
        /\ parseIteration(buffer, packetSize, Config).kind = "nosync"
        /\ parseNoSync)
          => Len(buffer') <= 1]_vars

\* C21: after an iteration of parse() that finds no sync position the
\* FrameBuffer holds at most 2 bytes, the last bytes it held before.
C21_TrimToTwo ==
    [][(/\ pc = "loop"
        /\ Len(buffer) >= packetSize
        /\ parseIteration(buffer, packetSize, Config).kind = "nosync"
        /\ parseNoSync)
          => /\ Len(buffer') <= 2
             /\ buffer' = SubSeq(buffer, Len(buffer) - Len(buffer') + 1,
                                 Len(buffer))]_vars

\* parse() on five bytes without a sync pair, packet size 5, at its return.
C21_Witness ==
    /\ pc = "return"
    /\ packetSize = 5
    /\ stream = <<0, 0, 0, 90, 160>>
    /\ data = stream
    /\ buffer = <<90, 160>>

\* The first n packets of the stream, decoded.
packetsOf(n) ==
    LET size == getPacketSize(numChannels, bytesPerSample, useChecksum)
    IN  [i \in 1 .. n |->
            decodeOf(SubSeq(stream, ((i - 1) * size) + 1, i * size))]

\* The stream fed so far is whole valid packets of the configuration in
\* force, back to back from an empty FrameBuffer.
BackToBack ==
    LET size == getPacketSize(numChannels, bytesPerSample, useChecksum)
    IN  /\ ~reconfigured
        /\ SmallConfig
        /\ stream # <<>>
        /\ Len(stream) % size = 0
        /\ \A i \in 1 .. (Len(stream) \div size) :
              IsPacket(SubSeq(stream, ((i - 1) * size) + 1, i * size))

\* The bytes that have left the FrameBuffer since the stream began.
gone == Len(stream) - Len(buffer)

\* The bytes gone are whole packets, one packet returned or collected for
\* each, and the FrameBuffer holds the rest of the stream.
Balanced ==
    /\ gone >= 0
    /\ gone % 5 = 0
    /\ buffer = Drop(stream, gone)
    /\ Len(emitted) + Len(packets) = gone \div 5

\* A step collects nothing, or the decode of the next five bytes of the
\* stream behind the packets it had.
CollectsNext ==
    \/ stream' = <<>>
    \/ emitted' \o packets' = emitted \o packets
    \/ emitted' \o packets'
          = Append(emitted \o packets,
                   decodeOf(SubSeq(stream, gone + 1, gone + 5)))

\* A step that begins a parse() call whose bytes do not fit under the cap.
Overflows == pc = "idle" /\ pc' = "loop" /\ Len(stream') > Len(buffer')

\* C22 as claimed: k back-to-back valid packets fed from an empty
\* FrameBuffer, however they are cut into parse() calls, come back as
\* exactly those k packets in order, and the FrameBuffer ends empty.
C22_Claimed ==
    (Parsed /\ BackToBack)
        => /\ emitted = packetsOf(Len(stream) \div 5)
           /\ buffer = <<>>

\* C22: the same, for every cut in which no call takes the FrameBuffer
\* over its cap.  While no call overflows, every step keeps the bytes
\* accounted for and every call returns with less than a packet buffered;
\* a stream no longer than the cap comes back whole.
C22_BackToBack ==
    /\ []((Parsed /\ BackToBack /\ Len(stream) <= CapPackets)
             => /\ emitted = packetsOf(Len(stream) \div 5)
                /\ buffer = <<>>)
    /\ [][(SmallConfig /\ ~reconfigured /\ Balanced /\ ~Overflows)
             => /\ Balanced'
                /\ CollectsNext
                /\ (pc' = "return" => Len(buffer') < 5)]_vars

\* A call given two whole packets after a first call given one, at its
\* return with both packets collected.
C22_Witness ==
    /\ pc = "return"
    /\ SmallConfig
    /\ ~reconfigured
    /\ Len(stream) = 15
    /\ Len(data) = 10
    /\ emitted = packetsOf(1)
    /\ emitted \o packets = packetsOf(3)
    /\ buffer = <<>>

\* The position of the first sync pair the scan of parse() finds in the
\* FrameBuffer, and the candidate window that starts there.
syncPosition == findSync(buffer, packetSize, syncByte1, syncByte2)
candidate == SubSeq(buffer, syncPosition + 1, syncPosition + packetSize)

\* C23: on a checksum mismatch of the aligned candidate parse() erases the
\* bytes before the sync position and exactly one byte of the candidate,
\* collects no packet and stays in its loop; every packet it returns has
\* valid = true, and the XOR of the first packetSize - 1 bytes of its
\* window equals the last.
C23_ChecksumMismatch ==
    [][/\ parseBadChecksum
          => /\ buffer' = Drop(buffer, syncPosition + 1)
             /\ packets' = packets
             /\ pc' = "loop"
       /\ parsePacket
          => /\ XorFold(candidate, packetSize - 1) = candidate[packetSize]
             /\ Len(packets') = Len(packets) + 1
             /\ packets'[Len(packets')].valid
       /\ \A i \in 1 .. Len(emitted') : emitted'[i].valid]_vars

\* The corrupt packet of the worked example has just been rejected: one
\* byte of it is gone and no packet is collected.
C23_Witness ==
    /\ pc = "loop"
    /\ ExampleConfig
    /\ data = ExampleCorrupt \o ExampleSecond
    /\ stream = data
    /\ buffer = Tail(data)
    /\ packets = <<>>

\* C24: every packet parse() collects has numChannels samples, sample ch
\* (from 0) the decode of the bytesPerSample bytes at offset
\* 2 + ch * bytesPerSample of the accepted window, and the window and the
\* bytes before it leave the FrameBuffer.
C24_SampleLayout ==
    [][parsePacket
          => LET packet == packets'[Len(packets')]
             IN  /\ packets' = Append(packets, packet)
                 /\ Len(packet.samples) = numChannels
                 /\ \A ch \in 0 .. (numChannels - 1) :
                       packet.samples[ch + 1]
                          = bytesToSample(
                               SubSeq(candidate,
                                      2 + (ch * bytesPerSample) + 1,
                                      2 + ((ch + 1) * bytesPerSample)),
                               bytesPerSample, scaleFactor)
                 /\ buffer' = Drop(buffer, syncPosition + packetSize)]_vars

\* The packet A0 5A 00 5A A0 found behind a garbage byte has been decoded
\* and nothing is left of either.
C24_Witness ==
    /\ pc = "loop"
    /\ SmallConfig
    /\ scaleFactor = [m |-> 1, e |-> 0]
    /\ stream = <<0, 160, 90, 0, 90, 160>>
    /\ data = stream
    /\ packets = <<packetWith(<<90>>)>>
    /\ buffer = <<>>

\* C25: the FrameBuffer is a bounded FIFO (cap of SpecCap).  After the
\* append step of parse() the buffer is the last min(cap, old length + n)
\* bytes of the old buffer followed by the n new bytes.
C25_BoundedFifo ==
    [][(pc = "idle" /\ pc' = "loop")
          => LET all  == buffer \o data'
                 kept == IF Len(all) < CapModel THEN Len(all) ELSE CapModel
             IN  buffer' = SubSeq(all, Len(all) - kept + 1, Len(all))]_vars

\* A second read has pushed the oldest byte out of a buffer that was not
\* empty.
C25_Witness ==
    /\ pc = "loop"
    /\ Len(data) = 2
    /\ Len(stream) = 6
    /\ buffer = SubSeq(stream, 2, 6)

\* C26: the sample counter and the timestamp anchor are set back only by
\* startAcquisition().  No other step lowers the counter or unsets the
\* anchor, the anchor is set only while it is unset and only by a publishing
\* cycle, and connect(), disconnect(), stopAcquisition() and the setters
\* leave both as they are.
C26_ResetOnlyOnStart ==
    [][/\ (totalSamples' < totalSamples \/ initialTimestamp'.n < initialTimestamp.n)
          => startAcquisition
       /\ (initialTimestamp' # initialTimestamp /\ initialTimestamp'.n >= 0)
          => /\ initialTimestamp.n < 0
             /\ generateSimulatedData \/ updateBufferPublish
       /\ (\/ buttonClickedConnect
           \/ disconnect
           \/ stopAcquisition
           \/ \E simulate \in BOOLEAN : setSimulationMode(simulate)
           \/ \E port \in PortNames : setPort(port)
           \/ \E num \in ThreadChannels : setNumChannels(num))
          => UNCHANGED <<totalSamples, initialTimestamp>>]_vars

\* A session that published two samples has been stopped and disconnected:
\* counter and anchor are as the session left them.
C26_Witness ==
    /\ acq = "stopped"
    /\ ~connected
    /\ totalSamples = 2
    /\ initialTimestamp = [n |-> 0, d |-> 256]

\* C27: in simulation mode an updateBuffer() cycle reads nothing from the
\* serial port and leaves the FrameBuffer as it is, whether the port is
\* open or not.
C27_SimulationBypass ==
    [][generateSimulatedData
          => /\ UNCHANGED <<buffer, stream, serialOpen>>
             /\ returned'.bytesRead = 0]_vars

\* Simulated samples have been published with the port open and a byte of
\* the live session still in the FrameBuffer (with 8 channels no packet
\* fits the bytes the model reads, so the samples are simulated ones).
C27_Witness ==
    /\ simulationMode
    /\ serialOpen
    /\ numChannels = 8
    /\ buffer = <<0>>
    /\ stream = <<0>>
    /\ totalSamples = 2
    /\ returned = [op |-> "updateBuffer", value |-> TRUE, bytesRead |-> 0]

\* C28: the FrameBuffer is empty right after every successful live
\* connect() and every successful startAcquisition(), and the packets a
\* cycle publishes while the port is open are built from bytes read since
\* the FrameBuffer was last emptied: each takes packetSize of those bytes.
C28_SessionBytesOnly ==
    [][/\ (connect /\ ~simulationMode /\ returned'.value) => buffer' = <<>>
       /\ (startAcquisition /\ returned'.value) => buffer' = <<>>
       /\ (updateBufferPublish /\ connected /\ serialOpen)
          => Len(packets) * packetSize <= Len(stream)]_vars

\* C29: while a call of parse() is in progress, the FrameBuffer is changed
\* by the iterations of that call only.
C29_OnlyParseWritesBuffer ==
    [][(pc = "loop" /\ buffer' # buffer) => parseIterate]_vars

\* C30: samples are published and the sample counter advances only while
\* the connected flag is set.
C30_PublishOnlyConnected ==
    [][(totalSamples' > totalSamples \/ Len(published') > Len(published))
          => connected]_vars

\* C31: a connect() or startAcquisition() that returns false leaves the
\* sample counter, the timestamp anchor, the FrameBuffer, the connected
\* flag and the acquisition thread as they were, and a live connect() with
\* a port selected whose open succeeds returns true and sets connected.
C31_FailureRecoverable ==
    [][/\ ((connect \/ startAcquisition) /\ ~returned'.value)
          => UNCHANGED <<totalSamples, initialTimestamp, buffer, connected, acq>>
       /\ (connect /\ ~simulationMode /\ portName # "" /\ serialOpen')
          => /\ returned'.value
             /\ connected']_vars

\* After a session that published two samples was stopped and disconnected,
\* a startAcquisition() with COM3 selected has failed at the open: the
\* counter and the anchor of that session are still there.
C31_Witness ==
    /\ returned = [op |-> "startAcquisition", value |-> FALSE, bytesRead |-> 0]
    /\ portName = "COM3"
    /\ ~simulationMode
    /\ ~connected
    /\ ~serialOpen
    /\ acq = "stopped"
    /\ totalSamples = 2
    /\ initialTimestamp.n = 0

\* C33: when parse() reaches its return statement the FrameBuffer holds
\* fewer bytes than the packet size the call worked with.
C33_LessThanPacketLeft ==
    pc = "return" => Len(buffer) < packetSize

\* parse() has dropped a byte in front of a sync pair and returns with the
\* four bytes it has of that candidate, one byte short of a packet.
C33_Witness ==
    /\ pc = "return"
    /\ packetSize = 5
    /\ Len(stream) = 5
    /\ buffer = Tail(stream)
    /\ buffer[1] = syncByte1
    /\ buffer[2] = syncByte2

\* C36: whenever the connected flag is set there is a data source: the
\* simulation mode is on or the serial port is open.
C36_ConnectedHasSource ==
    connected => (simulationMode \/ serialOpen)

\* a <= b for two fractions with positive denominators.
fractionLeq(a, b) == a.n * b.d <= b.n * a.d

\* C32: the timestamps published in a session never decrease from one
\* sample to the next, whatever sample-rate changes come between the cycles.
C32_TimestampsMonotonic ==
    \A i \in 1 .. Len(published) - 1 :
        fractionLeq(published[i].timestamp, published[i + 1].timestamp)

\* The largest index ch * batch + i of dataBuffer written for a batch:
\* ch < channels, i < batch.
lastWriteIndex(channels, batch) == (channels - 1) * batch + (batch - 1)

\* C35: every write of a simulated cycle into dataBuffer lies within the
\* floats the buffer was last allocated for, whatever channel-count changes
\* come between the cycles.
C35_WritesInBounds ==
    [][(generateSimulatedDataRate /\ samplesPerUpdateOf(sampleRate) > 0)
          => lastWriteIndex(numChannels, samplesPerUpdateOf(sampleRate))
                < dataBufferSize]_vars

\* C37: every simulated cycle publishes at least one sample and advances
\* the sample counter by (int)(sampleRate / 100).
C37_NonEmptyBlock ==
    [][generateSimulatedDataRate
          => /\ totalSamples' = totalSamples + samplesPerUpdateOf(sampleRate)
             /\ totalSamples' > totalSamples
             /\ Len(published') > Len(published)]_vars

\* The smallest and the largest packet of the configuration surface: the
\* checksum byte is always there (useChecksum is never written).
minPacketSize == getPacketSize(MinChannels, 2, TRUE)
maxPacketSize == getPacketSize(MaxChannels, 4, TRUE)

\* The packets that fit into the bytes left in the FrameBuffer and n more.
packetsBound(leftover, n, size) == (leftover + n) \div size

\* C34: a cycle writes at most bufferSize samples.  Live: a call of parse()
\* starts with no packet and the bytes left over plus at most
\* READ_BUFFER_SIZE new ones, no step of the call lets packets * packetSize
\* + buffered bytes grow, the call leaves fewer than packetSize bytes, and
\* the cycle publishes one sample per packet; so a cycle publishes at most
\* packetsBound(maxPacketSize - 1, READ_BUFFER_SIZE, minPacketSize) samples.
\* Simulated: a cycle publishes (int)(sampleRate / 100) samples.  Both
\* numbers are at most bufferSize over the whole configuration surface.
C34_BatchFits ==
    /\ packetsBound(maxPacketSize - 1, READ_BUFFER_SIZE, minPacketSize) <= bufferSize
    /\ \A rate \in MinSampleRate .. MaxSampleRate :
          samplesPerUpdateOf(rate) <= bufferSize
    /\ [](pc = "return" => /\ Len(buffer) < packetSize
                           /\ minPacketSize <= packetSize
                           /\ packetSize <= maxPacketSize)
    /\ [][/\ (pc = "idle" /\ pc' = "loop")
             => /\ packets' = <<>>
                /\ Len(data') <= READ_BUFFER_SIZE
                /\ Len(buffer') <= Len(buffer) + Len(data')
          /\ pc = "loop"
             => Len(packets') * packetSize + Len(buffer')
                   <= Len(packets) * packetSize + Len(buffer)
          /\ updateBufferPublish
             => Len(published') = Len(published) + Len(packets)
          /\ generateSimulatedData
             => Len(published') = Len(published) + samplesPerUpdateOf(sampleRate)]_vars

\* A live cycle has published the two packets of one ten-byte read, the
\* largest batch of the model.
C34_Witness ==
    /\ returned = [op |-> "updateBuffer", value |-> TRUE, bytesRead |-> 10]
    /\ ~simulationMode
    /\ pc = "idle"
    /\ Len(emitted) = 2
    /\ totalSamples = 2
    /\ buffer = <<>>

====
